---- MODULE Spec2Model ----
(***************************************************************************)
(* Model of the backlink dead-page scanner of screaming-fixes:             *)
(*   src/netlify/functions/scan-backlinks.js         lines 1-193  (first   *)
(*       variant, "v1": aggregation only)                                  *)
(*   src/netlify/functions/scan-backlinks.js         lines 195-533         *)
(*       (batched-probe variant, "batched")                                *)
(*   src/public/netlify/functions/scan-backlinks.js  (rate-limited         *)
(*       variant, "public")                                                *)
(* and of the newsletter sign-up proxy                                     *)
(*   src/netlify/functions/subscribe.js                                    *)
(***************************************************************************)
EXTENDS Integers, Sequences, FiniteSets, TLC

VARIABLES
    deployed,        \* which variant of scan-backlinks.js is the running function
    items,           \* SpecAgg: the provider's items (raw edges) handed to the aggregation loop
    aggOut,          \* SpecAgg: the aggregation's outcome, NotRun before it ran
    configured,      \* process.env holds DATAFORSEO_LOGIN and DATAFORSEO_PASSWORD
    clock,           \* the calendar date (a day number) new Date() yields now
    rateLimitCache,  \* the keys of the module-level Map rateLimitCache
    reqs,            \* per invocation slot: the handler's position and locals
    response,        \* the response returned by the last step, NoResponse if none
    sub              \* subscribe.js: its environment, its invocation and its last response

\* The variables the scan handler leaves alone
aggVars == <<items, aggOut, sub>>
scanVars == <<configured, clock, rateLimitCache, reqs, response>>
vars == <<deployed, items, aggOut, sub, configured, clock, rateLimitCache, reqs, response>>

-----------------------------------------------------------------------------
(* The handler of subscribe.js.  An event is its method and its body: a   *)
(* body that is not JSON, or the fields email and website of a JSON body  *)
(* ("" for a field that is absent).                                        *)

MaxSubscribes == 2   \* most requests the function sends to MailerLite

SubscribeMethods == {"POST", "OPTIONS", "GET"}

Emails == {"", "a@b", "a@b.c", "d@e.f"}

SubscribeEvents ==
    { [httpMethod |-> m, parses |-> FALSE, email |-> "", website |-> ""] :
          m \in SubscribeMethods }
    \cup { [httpMethod |-> m, parses |-> TRUE, email |-> e, website |-> w] :
              m \in SubscribeMethods, e \in Emails, w \in {"", "x"} }

NoSubscribeEvent == [httpMethod |-> "", parses |-> FALSE, email |-> "", website |-> ""]

\* /^[^\s@]+@[^\s@]+\.[^\s@]+$/.test(email): an '@' with something before it,
\* later a '.' with something on both sides, and no other '@' and no space
EmailMatches(email) ==
    \E i, j \in 1..Len(email) :
        /\ 1 < i /\ i + 1 < j /\ j < Len(email)
        /\ SubSeq(email, i, i) = "@"
        /\ SubSeq(email, j, j) = "."
        /\ \A k \in (1..Len(email)) \ {i} : SubSeq(email, k, k) \notin {"@", " "}

\* { "Content-Type": "application/json" }: the headers of the 405 response
jsonHeaders ==
    [allowOrigin |-> "", allowHeaders |-> "", allowMethods |-> "",
     contentType |-> "application/json"]

\* const headers = {...}: the CORS headers of every other response
corsHeaders ==
    [allowOrigin |-> "https://screamingfixes.com", allowHeaders |-> "Content-Type",
     allowMethods |-> "POST, OPTIONS", contentType |-> "application/json"]

\* No response: the handler is at an await, or nothing was returned yet.
\* called tells whether the invocation sent a request to MailerLite, upstream
\* the status MailerLite answered with (0 if it did not answer).
NoSubscribeResponse ==
    [statusCode |-> 0, headers |-> [allowOrigin |-> "", allowHeaders |-> "",
                                    allowMethods |-> "", contentType |-> ""],
     success |-> FALSE, error |-> "", message |-> "", called |-> FALSE,
     upstream |-> 0, event |-> NoSubscribeEvent]

\* return { statusCode, headers, body: JSON.stringify({ error }) }; the body
\* of the 204 response is '' (error "")
SubscribeError(statusCode, hdrs, error) ==
    [NoSubscribeResponse EXCEPT !.statusCode = statusCode, !.headers = hdrs,
                                !.error = error]

\* return { statusCode: 200, headers, body: JSON.stringify({ success: true }) }
Subscribed(message) ==
    [NoSubscribeResponse EXCEPT !.statusCode = 200, !.headers = corsHeaders,
                                !.success = TRUE, !.message = message]

\* The handler from its entry to its first return, or to the call of fetch
\* (no response), in the order of its tests
SubscribeStart(event, hasKey) ==
    IF event.httpMethod # "POST"
    THEN SubscribeError(405, jsonHeaders, "Method not allowed")
    ELSE IF event.httpMethod = "OPTIONS" THEN SubscribeError(204, corsHeaders, "")
    ELSE IF ~event.parses                                \* JSON.parse throws
    THEN SubscribeError(500, corsHeaders, "Server error")
    ELSE IF event.email = "" \/ ~EmailMatches(event.email)
    THEN SubscribeError(400, corsHeaders, "Invalid email address")
    ELSE IF event.website # "" THEN Subscribed("")      \* the honeypot
    ELSE IF ~hasKey THEN SubscribeError(500, corsHeaders, "Server configuration error")
    ELSE NoSubscribeResponse

\* The handler after response.json() has resolved, for the status of
\* MailerLite's response
SubscribeEnd(status) ==
    IF status >= 200 /\ status <= 299 THEN Subscribed("")               \* response.ok
    ELSE IF status = 422 \/ status = 409 THEN Subscribed("Already subscribed")
    ELSE SubscribeError(500, corsHeaders, "Subscription failed")

\* Status codes MailerLite answers with
MailerLiteStatuses == {200, 201, 409, 422, 400, 500}

\* The function at rest: apiKey tells whether process.env holds
\* MAILERLITE_API_KEY, pc the position of the invocation ("fetch" at await
\* fetch, "json" at await response.json()), calls the emails sent to
\* MailerLite so far
NoSubscription(hasKey) ==
    [apiKey |-> hasKey, pc |-> "idle", event |-> NoSubscribeEvent, status |-> 0,
     calls |-> <<>>, response |-> NoSubscribeResponse]

\* The invocation in progress returns the response out
SubscribeReturn(out, called) ==
    sub' = [sub EXCEPT !.pc = "idle", !.event = NoSubscribeEvent, !.status = 0,
                       !.response = [out EXCEPT !.event = sub.event, !.called = called,
                                                 !.upstream = sub.status]]

\* An invocation: the handler runs up to its first return or to await fetch
SubscribeArrive(events) ==
    /\ sub.pc = "idle"
    /\ sub.response = NoSubscribeResponse
    /\ \E event \in events :
        \E out \in {SubscribeStart(event, sub.apiKey)} :
            IF out.statusCode # 0
            THEN sub' = [sub EXCEPT !.response = [out EXCEPT !.event = event]]
            ELSE /\ Len(sub.calls) < MaxSubscribes
                 /\ sub' = [sub EXCEPT !.pc = "fetch", !.event = event,
                                       !.calls = Append(@, event.email)]
    /\ UNCHANGED <<deployed, items, aggOut, scanVars>>

\* fetch rejects (no connection): catch (err)
SubscribeFetchFails ==
    /\ sub.pc = "fetch"
    /\ SubscribeReturn(SubscribeError(500, corsHeaders, "Server error"), TRUE)
    /\ UNCHANGED <<deployed, items, aggOut, scanVars>>

\* fetch resolves with MailerLite's response; the handler awaits its body
SubscribeFetchResolves(statuses) ==
    /\ sub.pc = "fetch"
    /\ \E status \in statuses : sub' = [sub EXCEPT !.pc = "json", !.status = status]
    /\ UNCHANGED <<deployed, items, aggOut, scanVars>>

\* response.json() rejects (the body is not JSON): catch (err)
SubscribeJsonFails ==
    /\ sub.pc = "json"
    /\ SubscribeReturn(SubscribeError(500, corsHeaders, "Server error"), TRUE)
    /\ UNCHANGED <<deployed, items, aggOut, scanVars>>

\* response.json() resolves
SubscribeJsonResolves ==
    /\ sub.pc = "json"
    /\ SubscribeReturn(SubscribeEnd(sub.status), TRUE)
    /\ UNCHANGED <<deployed, items, aggOut, scanVars>>

\* The returned response leaves the function
SubscribeDeliver ==
    /\ sub.response # NoSubscribeResponse
    /\ sub' = [sub EXCEPT !.response = NoSubscribeResponse]
    /\ UNCHANGED <<deployed, items, aggOut, scanVars>>

NextSubscribe ==
    \/ SubscribeArrive(SubscribeEvents)
    \/ SubscribeFetchFails
    \/ SubscribeFetchResolves(MailerLiteStatuses)
    \/ SubscribeJsonFails
    \/ SubscribeJsonResolves
    \/ SubscribeDeliver

-----------------------------------------------------------------------------
(* Strings.  A URL string is modelled by its components: `new URL(s)` succeeds *)
(* exactly for the strings with a scheme.  A string without a scheme is its   *)
(* text, kept in the field path.                                              *)

Url(scheme, host, path, query) ==
    [scheme |-> scheme, host |-> host, path |-> path, query |-> query]

Raw(text) == Url("", "", text, "")

\* link.url_to absent (undefined) or the empty string: falsy
NoUrl == Raw("")

\* new URL(u) does not throw
Parses(u) == u.scheme # ""

\* new URL(u).pathname
pathname(u) == u.path

\* u.startsWith('http')
startsWithHttp(u) == u.scheme \in {"http", "https"}

\* link.domain_from absent (undefined): falsy
NoDomain == 0

\* Property names every object literal {} inherits from Object.prototype:
\* groupedByTarget[k] is truthy for them although k was never assigned.
ProtoKeys == {"constructor"}

-----------------------------------------------------------------------------
(* Bounds and the inputs drawn from them *)

MaxEdges == 4      \* longest freely chosen edge list
MaxLong == 12      \* longest patterned edge list (reaches the cap of 10 referrers)

UA1 == Url("https", "h1", "/a", "")
UA2 == Url("http", "h2", "/a", "q")
UB == Url("https", "h1", "/b", "")
UFtp == Url("ftp", "h1", "/a", "")
URaw == Raw("nota")
UProto == Raw("constructor")

\* <<url_to, domain_from>> of the freely chosen edges
EdgeKinds ==
    { <<UA1, 1>>, <<UA1, 2>>, <<UA2, 1>>, <<UB, 1>>, <<UB, NoDomain>>,
      <<URaw, 2>>, <<UProto, 1>>, <<NoUrl, 1>> }

\* The i-th item of a response: url_from is the linking page (one per item),
\* domain_from_rank the rank of the linking domain.
MkItem(i, k) ==
    [url_to |-> k[1], url_from |-> i, domain_from |-> k[2],
     domain_from_rank |-> 10 * k[2]]

MkItems(ks) == [i \in 1..Len(ks) |-> MkItem(i, ks[i])]

SeqsUpTo(S, n) == UNION { [1..m -> S] : m \in 0..n }

ShortLists == { MkItems(ks) : ks \in SeqsUpTo(EdgeKinds, MaxEdges) }

\* n edges whose source domains cycle through 1..m; every second edge goes to
\* /b when two, the others to /a
LongList(n, m, two) ==
    MkItems([i \in 1..n |->
        <<IF two /\ i % 2 = 0 THEN UB ELSE UA1, ((i - 1) % m) + 1>>])

LongLists ==
    { LongList(n, m, two) : n \in (MaxEdges + 1)..MaxLong, m \in 1..MaxLong,
                            two \in BOOLEAN }

EdgeLists == ShortLists \cup LongLists

-----------------------------------------------------------------------------
(* The aggregation loop of callDataForSEO, in its three variants.  The     *)
(* object groupedByTarget is the sequence of its own properties in         *)
(* insertion order; ObjectValues is the order in which Object.keys and     *)
(* Object.values enumerate them.                                           *)

TopReferrersCap == 10
ResultCap == 1000

Variants == {"v1", "batched", "public"}

NotRun == [ran |-> FALSE, threw |-> FALSE, results |-> <<>>]
Threw == [ran |-> TRUE, threw |-> TRUE, results |-> <<>>]
Returned(rs) == [ran |-> TRUE, threw |-> FALSE, results |-> rs]

HasKey(grouped, key) == \E j \in 1..Len(grouped) : grouped[j].dead_page = key

IndexOfKey(grouped, key) ==
    CHOOSE j \in 1..Len(grouped) : grouped[j].dead_page = key

\* array.indexOf(x) !== -1, array.includes(x)
includes(arr, x) == \E j \in 1..Len(arr) : arr[j] = x

NewGroup(targetPath, targetUrl) ==
    [dead_page |-> targetPath, target_url |-> targetUrl, backlink_count |-> 0,
     referring_domains |-> <<>>, top_referrers |-> <<>>]

Referrer(link) ==
    [domain |-> link.domain_from, url |-> link.url_from,
     domain_rank |-> link.domain_from_rank, backlinks |-> 1]

\* let targetPath; try { new URL(targetUrl).pathname } catch { targetUrl }
targetPathOrRaw(targetUrl) ==
    IF Parses(targetUrl) THEN pathname(targetUrl) ELSE targetUrl.path

\* if (!groupedByTarget[targetPath]) groupedByTarget[targetPath] = {...}
EnsureGroup(grouped, targetPath, targetUrl) ==
    IF HasKey(grouped, targetPath) \/ targetPath \in ProtoKeys
    THEN grouped
    ELSE Append(grouped, NewGroup(targetPath, targetUrl))

\* Mutant of BumpBatched: the referring domain is pushed without the includes test
BumpBatchedNoDedupe(g, link) ==
    [g EXCEPT
        !.backlink_count = @ + 1,
        !.referring_domains =
            IF link.domain_from # NoDomain THEN Append(@, link.domain_from) ELSE @,
        !.top_referrers =
            IF link.domain_from # NoDomain /\ Len(@) < TopReferrersCap
            THEN Append(@, Referrer(link)) ELSE @]

\* One iteration of the batched-probe variant's loop on an item that is not
\* skipped.  g is the accumulator of the item's target path.
BumpBatched(g, link) ==
    LET counted == [g EXCEPT !.backlink_count = @ + 1]
        domainFrom == link.domain_from
    IN  IF domainFrom # NoDomain /\ ~includes(g.referring_domains, domainFrom)
        THEN [counted EXCEPT
                !.referring_domains = Append(@, domainFrom),
                !.top_referrers =
                    IF Len(@) < TopReferrersCap
                    THEN Append(@, Referrer(link)) ELSE @]
        ELSE counted

\* One iteration of the first variant's loop
BumpV1(g, link) ==
    [g EXCEPT
        !.backlink_count = @ + 1,
        !.referring_domains =
            IF includes(@, link.domain_from) THEN @ ELSE Append(@, link.domain_from),
        !.top_referrers =
            IF Len(@) < TopReferrersCap THEN Append(@, Referrer(link)) ELSE @]

\* One iteration of the rate-limited variant's loop (referring_domains is a
\* Set: its elements in insertion order)
BumpPublic(g, link) == BumpV1(g, link)

Bump(v, g, link) ==
    CASE v = "batched" -> BumpBatched(g, link)
      [] v = "v1" -> BumpV1(g, link)
      [] v = "public" -> BumpPublic(g, link)

\* One iteration of the loop, on the accumulators so far.  The result is Threw
\* when the iteration throws (caught by the try around the response handling).
AggStep(v, link, grouped) ==
    LET targetUrl == link.url_to
    IN  IF v = "batched" /\ targetUrl = NoUrl
        THEN Returned(grouped)                              \* continue
        ELSE IF v = "public" /\ ~Parses(targetUrl)
        THEN Threw                                          \* new URL throws
        ELSE LET targetPath == targetPathOrRaw(targetUrl)
                 ensured == EnsureGroup(grouped, targetPath, targetUrl)
             IN  IF ~HasKey(ensured, targetPath)
                 THEN Threw             \* an inherited property is no accumulator
                 ELSE LET j == IndexOfKey(ensured, targetPath)
                      IN  Returned([ensured EXCEPT ![j] = Bump(v, @, link)])

\* The iterations lo..hi in order, from the outcome acc of those before lo
\* (the range is halved to keep the evaluation shallow)
RECURSIVE AggRange(_, _, _, _, _)
AggRange(v, links, lo, hi, acc) ==
    IF acc.threw \/ lo > hi THEN acc
    ELSE IF lo = hi THEN AggStep(v, links[lo], acc.results)
    ELSE LET mid == (lo + hi) \div 2
         IN  AggRange(v, links, mid + 1, hi, AggRange(v, links, lo, mid, acc))

\* The loop over the items from index i on
AggLoop(v, links, i, grouped) == AggRange(v, links, i, Len(links), Returned(grouped))

\* Mutant of SortByCount: the comparator is a.backlink_count - b.backlink_count
SortByCountAscending(arr) ==
    LET n == Len(arr)
        pos == [i \in 1..n |->
                   1 + Cardinality({ j \in 1..n :
                         \/ arr[j].backlink_count < arr[i].backlink_count
                         \/ arr[j].backlink_count = arr[i].backlink_count /\ j < i })]
    IN  [k \in 1..n |-> arr[CHOOSE i \in 1..n : pos[i] = k]]

\* Array.prototype.sort((a, b) => b.backlink_count - a.backlink_count), which
\* is stable: element i goes behind the elements with a greater count and
\* behind the earlier elements with the same count
SortByCount(arr) ==
    LET n == Len(arr)
        pos == [i \in 1..n |->
                   1 + Cardinality({ j \in 1..n :
                         \/ arr[j].backlink_count > arr[i].backlink_count
                         \/ arr[j].backlink_count = arr[i].backlink_count /\ j < i })]
    IN  [k \in 1..n |-> arr[CHOOSE i \in 1..n : pos[i] = k]]

Min(a, b) == IF a < b THEN a ELSE b

\* A property name that is an array index: the canonical decimal form of an
\* integer (no sign, no leading zero)
DigitChars == { SubSeq("0123456789", k, k) : k \in 1..10 }

IsArrayIndex(key) ==
    /\ Len(key) \in 1..9
    /\ \A k \in 1..Len(key) : SubSeq(key, k, k) \in DigitChars
    /\ (Len(key) > 1 => SubSeq(key, 1, 1) # "0")

DigitValue(c) == (CHOOSE k \in 1..10 : SubSeq("0123456789", k, k) = c) - 1

RECURSIVE IndexValue(_)
IndexValue(key) ==
    IF key = "" THEN 0
    ELSE 10 * IndexValue(SubSeq(key, 1, Len(key) - 1))
         + DigitValue(SubSeq(key, Len(key), Len(key)))

\* Mutant of ObjectValues: the properties in the order of their creation
ObjectValuesAsInserted(grouped) == grouped

\* Object.values(groupedByTarget), Object.keys(groupedByTarget): the array
\* indices among the property names in ascending order, then the other names
\* in the order of their creation
ObjectValues(grouped) ==
    LET n == Len(grouped)
        isIndex == [i \in 1..n |-> IsArrayIndex(grouped[i].dead_page)]
        value == [i \in 1..n |->
                     IF isIndex[i] THEN IndexValue(grouped[i].dead_page) ELSE 0]
        pos == [i \in 1..n |->
                   1 + Cardinality({ j \in 1..n :
                         \/ isIndex[j] /\ ~isIndex[i]
                         \/ isIndex[j] /\ isIndex[i] /\ value[j] < value[i]
                         \/ ~isIndex[j] /\ ~isIndex[i] /\ j < i })]
    IN  [k \in 1..n |-> grouped[CHOOSE i \in 1..n : pos[i] = k]]

\* Mutant of slice: the array is taken whole
sliceAll(arr, n) == arr

\* arr.slice(0, n)
slice(arr, n) == SubSeq(arr, 1, IF Len(arr) < n THEN Len(arr) ELSE n)

\* The aggregates a variant hands on: v1 and batched add the count of
\* referring domains, sort and truncate; the rate-limited variant probes the
\* accumulators in the order of Object.values.
WithCount(g) ==
    [dead_page |-> g.dead_page, target_url |-> g.target_url,
     backlink_count |-> g.backlink_count,
     referring_domains_count |-> Len(g.referring_domains),
     top_referrers |-> g.top_referrers]

Aggregates(v, links) ==
    LET out == AggLoop(v, links, 1, <<>>)
    IN  IF out.threw THEN Threw
        ELSE LET values == ObjectValues(out.results)
                 counted == [j \in 1..Len(values) |-> WithCount(values[j])]
             IN  IF v = "public" THEN Returned(counted)
                 ELSE Returned(slice(SortByCount(counted), ResultCap))

-----------------------------------------------------------------------------
(* The request handler (exports.handler) of the rate-limited and the       *)
(* batched-probe variant.  JavaScript runs each callback to completion, so *)
(* one action is the code between two awaited events.                      *)

MaxReqs == 2       \* invocations in flight at once
MaxDays == 2       \* calendar dates the clock passes through
MaxScanEdges == 2  \* longest freely chosen provider edge list in SpecScan

MaxChecks == 100
BatchSize == 10
ProviderOk == 20000

Slots == 1..MaxReqs

\* "ABC".toLowerCase()
UpperChars == { SubSeq("ABCDEFGHIJKLMNOPQRSTUVWXYZ", k, k) : k \in 1..26 }

LowerOf ==
    [c \in UpperChars |->
        LET k == CHOOSE k \in 1..26 : SubSeq("ABCDEFGHIJKLMNOPQRSTUVWXYZ", k, k) = c
        IN  SubSeq("abcdefghijklmnopqrstuvwxyz", k, k)]

LowerChar(c) == IF c \in UpperChars THEN LowerOf[c] ELSE c

RECURSIVE toLowerCase(_)
toLowerCase(str) ==
    IF str = "" THEN ""
    ELSE LowerChar(SubSeq(str, 1, 1)) \o toLowerCase(SubSeq(str, 2, Len(str)))

startsWith(str, prefix) ==
    Len(str) >= Len(prefix) /\ SubSeq(str, 1, Len(prefix)) = prefix

\* str.replace(/^prefix/, '')
StripPrefix(str, prefix) ==
    IF startsWith(str, prefix) THEN SubSeq(str, Len(prefix) + 1, Len(str)) ELSE str

\* str.replace(/\/$/, '')
StripTrailingSlash(str) ==
    IF Len(str) > 0 /\ SubSeq(str, Len(str), Len(str)) = "/"
    THEN SubSeq(str, 1, Len(str) - 1) ELSE str

\* str.split('/')[0]
RECURSIVE BeforeSlash(_)
BeforeSlash(str) ==
    IF str = "" \/ SubSeq(str, 1, 1) = "/" THEN ""
    ELSE SubSeq(str, 1, 1) \o BeforeSlash(SubSeq(str, 2, Len(str)))

\* .replace(/^https?:\/\//, '')
StripScheme(str) ==
    IF startsWith(str, "https://") THEN StripPrefix(str, "https://")
    ELSE StripPrefix(str, "http://")

normalizedDomain(domain) ==
    BeforeSlash(StripTrailingSlash(StripPrefix(StripScheme(toLowerCase(domain)), "www.")))

\* Mutant of rateLimitKey: the key leaves the date out
RateLimitKeyNoDate(domain, today) == <<domain, 0>>

\* Mutant of rateLimitKey: the key leaves the domain out
RateLimitKeyNoDomain(domain, today) == <<"", today>>

\* `${normalizedDomain}-${today}`: the date part has a fixed width, so the key
\* determines the pair
rateLimitKey(domain, today) == <<domain, today>>

\* The value of body.domain: absent, a number, or a string
Undefined == [type |-> "undefined", text |-> ""]

\* The event of a response that was returned after an await: the response
\* records the event only when the handler returns before its first await
NoEvent == [httpMethod |-> "", bodyParses |-> FALSE, domain |-> Undefined]
Number42 == [type |-> "number", text |-> "42"]
Str(text) == [type |-> "string", text |-> text]

\* !domain
Falsy(domain) == domain.type = "undefined" \/ (domain.type = "string" /\ domain.text = "")

\* const headers = {...}: the headers of every response
headers ==
    [allowOrigin |-> "*", allowHeaders |-> "Content-Type",
     allowMethods |-> "POST, OPTIONS", contentType |-> "application/json"]

NoHeaders == [allowOrigin |-> "", allowHeaders |-> "", allowMethods |-> "", contentType |-> ""]

\* body.debug, absent from every response but the 200 of the batched-probe variant
NoDebug == [total_urls_from_api |-> 0, urls_checked |-> 0, dead_pages_found |-> 0]

\* How the provider request of an invocation ended: not at all (kind ""), with
\* a connection error ("unreachable"), with a body that is not JSON
\* ("garbage") or with a JSON body ("json") and its status_code,
\* status_message and shape
NoUpstream == [kind |-> "", status_code |-> 0, status_message |-> "", shape |-> ""]

NoResponse ==
    [method |-> "", statusCode |-> 0, success |-> FALSE, error |-> "",
     domain |-> "", today |-> 0, results |-> <<>>, probed |-> <<>>, debug |-> NoDebug,
     upstream |-> NoUpstream, calls |-> 0, headers |-> NoHeaders, event |-> NoEvent,
     edges |-> <<>>, spent |-> 0]

\* Mutant of Reply: the body is left empty
ReplyNoBody(method, statusCode, error, domain, today) ==
    [method |-> method, statusCode |-> statusCode, success |-> FALSE,
     error |-> "", domain |-> domain, today |-> today, results |-> <<>>,
     probed |-> <<>>, debug |-> NoDebug, upstream |-> NoUpstream, calls |-> 0,
     headers |-> headers, event |-> NoEvent, edges |-> <<>>, spent |-> 0]

\* return { statusCode, headers, body: JSON.stringify({ error }) }; the body of
\* the OPTIONS response is '' (error "")
Reply(method, statusCode, error, domain, today) ==
    [method |-> method, statusCode |-> statusCode, success |-> FALSE,
     error |-> error, domain |-> domain, today |-> today, results |-> <<>>,
     probed |-> <<>>, debug |-> NoDebug, upstream |-> NoUpstream, calls |-> 0,
     headers |-> headers, event |-> NoEvent, edges |-> <<>>, spent |-> 0]

Success(domain, today, results, probed) ==
    [method |-> "POST", statusCode |-> 200, success |-> TRUE,
     error |-> "", domain |-> domain, today |-> today, results |-> results,
     probed |-> probed, debug |-> NoDebug, upstream |-> NoUpstream, calls |-> 0,
     headers |-> headers, event |-> NoEvent, edges |-> <<>>, spent |-> 0]

\* A slot: the locals of an invocation, with its history: edges the list the
\* aggregation loop ran over, probed the outcomes of the probes awaited so
\* far, spent the milliseconds the awaits of the probes took so far, late the
\* number of fallback GET requests in flight whose probe is resolved
Idle ==
    [pc |-> "idle", domain |-> "", today |-> 0, status_code |-> 0, error |-> "",
     calls |-> 0, upstream |-> NoUpstream, total |-> 0, targets |-> <<>>, i |-> 0,
     probes |-> <<>>, deadPages |-> <<>>, probed |-> <<>>, edges |-> <<>>,
     spent |-> 0, late |-> 0]

\* The slot of an invocation that has sent its request to the provider (calls
\* counts the requests the invocation has sent)
Calling(domain, today) ==
    [Idle EXCEPT !.pc = "provider", !.domain = domain, !.today = today, !.calls = 1]

\* const today = new Date().toISOString().split('T')[0]; only the rate-limited
\* variant reads the clock
Today(v, now) == IF v = "public" THEN now ELSE 0

\* if (rateLimitCache.has(rateLimitKey))
Limited(v, cache, key) == v = "public" /\ key \in cache

\* catch (error): the body of the 500 response
CatchError(v, message) ==
    IF v = "public" THEN "Internal server error"
    ELSE "Internal server error: " \o message

\* The try block of the handler up to the call of callDataForSEO, with the
\* catch: the response it returns at once, or no response (status code 0,
\* with the domain and date it goes on with) when it issues the provider
\* request.
HandlePost(v, event, cache, now, hasCredentials) ==
    IF ~event.bodyParses                                       \* JSON.parse throws
    THEN Reply("POST", 500, CatchError(v, "Unexpected token"), "", 0)
    ELSE IF ~Falsy(event.domain) /\ event.domain.type # "string"
    THEN Reply("POST", 500, CatchError(v, "domain.toLowerCase is not a function"), "", 0)
    ELSE IF Falsy(event.domain)
    THEN Reply("POST", 400, "Domain is required", "", 0)
    ELSE LET dom == CHOOSE d \in {normalizedDomain(event.domain.text)} : TRUE
             today == Today(v, now)
         IN  IF Limited(v, cache, rateLimitKey(dom, today))
             THEN Reply("POST", 429, "Rate limit exceeded", dom, today)
             ELSE IF ~hasCredentials
             THEN Reply("POST", 500, "API not configured", dom, today)
             ELSE [NoResponse EXCEPT !.domain = dom, !.today = today]

\* Mutant of HandlerStart: the test for POST comes before the one for OPTIONS
HandlerStartPostFirst(v, event, cache, now, hasCredentials) ==
    IF event.httpMethod # "POST"
    THEN Reply(event.httpMethod, 405, "Method not allowed", "", 0)
    ELSE HandlePost(v, event, cache, now, hasCredentials)

\* The handler from its entry to its first return or to the call of
\* callDataForSEO
HandlerStart(v, event, cache, now, hasCredentials) ==
    IF event.httpMethod = "OPTIONS" THEN Reply("OPTIONS", 200, "", "", 0)
    ELSE IF event.httpMethod # "POST"
    THEN Reply(event.httpMethod, 405, "Method not allowed", "", 0)
    ELSE HandlePost(v, event, cache, now, hasCredentials)

\* An invocation: the handler runs up to its first return or await
Arrive(r, events) ==
    /\ response = NoResponse
    /\ reqs[r].pc = "idle"
    /\ \E event \in events :
        \E out \in {HandlerStart(deployed, event, rateLimitCache, clock, configured)} :
            IF out.statusCode # 0
            THEN /\ response' = [out EXCEPT !.event = event]
                 /\ reqs' = [reqs EXCEPT ![r] = Idle]
            ELSE /\ response' = NoResponse
                 /\ reqs' = [reqs EXCEPT ![r] = Calling(out.domain, out.today)]
    /\ UNCHANGED <<deployed, aggVars, configured, clock, rateLimitCache>>

\* The returned response leaves the function.  response is written and never
\* read by the handler, so the events are taken with no response pending.
Deliver ==
    /\ response # NoResponse
    /\ response' = NoResponse
    /\ UNCHANGED <<deployed, aggVars, configured, clock, rateLimitCache, reqs>>

\* The date changes
Tick ==
    /\ response = NoResponse
    /\ clock < MaxDays
    /\ clock' = clock + 1
    /\ response' = NoResponse
    /\ UNCHANGED <<deployed, aggVars, configured, rateLimitCache, reqs>>

-----------------------------------------------------------------------------
(* checkUrlStatus: one liveness probe *)

Unresolved == -1

\* Status codes the probed hosts answer with
HostStatuses == {200, 301, 404, 410, 500}

\* const timeout = 8000 (batched-probe variant), timeout: 5000 (rate-limited
\* variant): milliseconds from the start of a request to its 'timeout' event
Timeout(v) == IF v = "batched" THEN 8000 ELSE 5000

\* An event of a request: type and status code, and for a response or an
\* error the milliseconds after the start of the request at which it arrives
\* (a 'timeout' arrives Timeout(v) after the start)
EventsAfter(delays) ==
    { [type |-> "response", statusCode |-> c, after |-> d] : c \in HostStatuses, d \in delays }
    \cup { [type |-> "error", statusCode |-> 0, after |-> d] : d \in delays }
    \cup { [type |-> "timeout", statusCode |-> 0, after |-> 0] }

\* The hosts answer at once or not at all
ProbeEvents == EventsAfter({0})

\* A probe: the promise checkUrlStatus returns (phase "head" or "get" while
\* it is pending on that request, "resolved" after resolve(status)), with how
\* it came to be resolved: by names the caller of resolve (the response
\* callback "response", an 'error' handler "error", a 'timeout' handler
\* "timeout", the catch around new URL(url) "invalid"), head and get how each
\* request ended up to then ("" for a request not sent, "sent" for one in
\* flight, else the type of its event), elapsed the milliseconds from the call
\* to resolve
Resolved(url, status, by) ==
    [url |-> url, phase |-> "resolved", status |-> status, by |-> by,
     head |-> "", get |-> "", elapsed |-> 0]

\* The call: resolve(0) when new URL(url) throws, else the HEAD request is sent
checkUrlStatus(url) ==
    IF Parses(url)
    THEN [url |-> url, phase |-> "head", status |-> Unresolved, by |-> "",
          head |-> "sent", get |-> "", elapsed |-> 0]
    ELSE Resolved(url, 0, "invalid")

\* resolve(status) on the pending probe p
Resolve(p, status, by) ==
    [p EXCEPT !.phase = "resolved", !.status = status, !.by = by]

\* An event of the request in flight for the pending probe p.  req.destroy()
\* in a 'timeout' handler makes the request emit 'error' (socket hang up): in
\* the batched-probe variant the 'error' handler of the HEAD request then
\* sends the fallback GET, after resolve(0) (get "late"); the other 'error'
\* handlers call resolve(0) once more, to no effect.
OnProbeEvent(v, p, ev) ==
    LET q == IF p.phase = "head"
             THEN [p EXCEPT !.head = ev.type,
                            !.elapsed = @ + (IF ev.type = "timeout" THEN Timeout(v)
                                             ELSE ev.after)]
             ELSE [p EXCEPT !.get = ev.type,
                            !.elapsed = @ + (IF ev.type = "timeout" THEN Timeout(v)
                                             ELSE ev.after)]
    IN  CASE ev.type = "response" -> Resolve(q, ev.statusCode, "response")
          [] ev.type = "error" /\ p.phase = "head" /\ v = "batched" ->
                [q EXCEPT !.phase = "get", !.get = "sent"]   \* the fallback GET is sent
          [] ev.type = "error" /\ p.phase = "head" /\ v # "batched" -> Resolve(q, 0, "error")
          [] ev.type = "error" /\ p.phase = "get" -> Resolve(q, 0, "error")
          [] ev.type = "timeout" /\ p.phase = "head" /\ v = "batched" ->
                [Resolve(q, 0, "timeout") EXCEPT !.get = "late"]
          [] ev.type = "timeout" /\ p.phase = "head" /\ v # "batched" ->
                Resolve(q, 0, "timeout")
          [] ev.type = "timeout" /\ p.phase = "get" -> Resolve(q, 0, "timeout")

\* The event ev at probe j of the slot s: the probe goes on or is resolved, and
\* a fallback GET sent after its probe was resolved stays in flight (late)
WithProbeEvent(v, s, j, ev) ==
    LET p == OnProbeEvent(v, s.probes[j], ev)
    IN  [s EXCEPT !.probes[j] = p,
                  !.late = IF p.get = "late" THEN @ + 1 ELSE @]

\* Mutant of AllResolved: the batch is joined when its first probe resolves
AnyResolved(probes) == \E j \in 1..Len(probes) : probes[j].phase = "resolved"

\* The outcome of the probe p of the aggregate item, as the loop that awaited
\* it holds it
ProbeResult(item, p) ==
    [target |-> item.dead_page, url |-> p.url, phase |-> p.phase, status |-> p.status,
     by |-> p.by, head |-> p.head, get |-> p.get, elapsed |-> p.elapsed]

AllResolved(probes) == \A j \in 1..Len(probes) : probes[j].phase = "resolved"

-----------------------------------------------------------------------------
(* filterDeadPages of the batched-probe variant *)

\* urlToCheck: the stored URL, prefixed with the domain when it does not start
\* with 'http'
urlToCheck(item, domain) ==
    LET u == item.target_url
    IN  IF Parses(u) /\ startsWithHttp(u) THEN u
        ELSE IF Parses(u)
        THEN Url("https", domain, "/" \o u.scheme \o "://" \o u.host \o u.path, u.query)
        ELSE IF startsWith(u.path, "http") THEN u
        ELSE Url("https", domain, (IF startsWith(u.path, "/") THEN "" ELSE "/") \o u.path, "")

\* Mutant of DeadBatched: every error status counts as dead
DeadBatchedAnyError(status) == status >= 400

\* if (status === 404 || status === 410)
DeadBatched(status) == status \in {404, 410}

DeadPage(item, probe) ==
    [dead_page |-> probe.url, dead_page_path |-> item.dead_page,
     status_code |-> probe.status, backlink_count |-> item.backlink_count,
     referring_domains |-> item.referring_domains_count,
     top_referrers |-> item.top_referrers]

\* Mutant of BatchResults: a probe that failed rejects the Promise.all of its
\* batch, and the batch yields nothing
RECURSIVE BatchResultsUnlessFailed(_, _, _)
BatchResultsUnlessFailed(batch, probes, j) ==
    IF \E k \in 1..Len(probes) : probes[k].status = 0 THEN <<>>
    ELSE IF j > Len(probes) THEN <<>>
    ELSE (IF DeadBatched(probes[j].status) THEN <<DeadPage(batch[j], probes[j])>> ELSE <<>>)
         \o BatchResultsUnlessFailed(batch, probes, j + 1)

\* Mutant of BatchResults: a record is pushed when its probe is answered, so
\* the records of the probes answered by the HEAD request come before those
\* of the probes answered by the fallback GET
BatchResultsAsAnswered(batch, probes, j) ==
    LET dead == { k \in j..Len(probes) : DeadBatched(probes[k].status) }
        before(a, b) == \/ probes[a].get = "" /\ probes[b].get # ""
                        \/ (probes[a].get = "") = (probes[b].get = "") /\ a < b
        pos == [k \in dead |-> 1 + Cardinality({ a \in dead : before(a, k) })]
    IN  [m \in 1..Cardinality(dead) |->
            LET k == CHOOSE k \in dead : pos[k] = m
            IN  DeadPage(batch[k], probes[k])]

\* Mutant of BatchResults: the callbacks of a batch share one loop variable,
\* and every record is built from the last item of the batch
RECURSIVE BatchResultsOfLastItem(_, _, _)
BatchResultsOfLastItem(batch, probes, j) ==
    IF j > Len(probes) THEN <<>>
    ELSE (IF DeadBatched(probes[j].status)
          THEN <<DeadPage(batch[Len(batch)], probes[j])>> ELSE <<>>)
         \o BatchResultsOfLastItem(batch, probes, j + 1)

\* The non-null results of a batch, in the order of the batch
RECURSIVE BatchResults(_, _, _)
BatchResults(batch, probes, j) ==
    IF j > Len(probes) THEN <<>>
    ELSE (IF DeadBatched(probes[j].status) THEN <<DeadPage(batch[j], probes[j])>> ELSE <<>>)
         \o BatchResults(batch, probes, j + 1)

\* Mutant of BatchAt: the slice has no end, the batch is all that is left
BatchAtRest(urlsToCheck, i) == SubSeq(urlsToCheck, i + 1, Len(urlsToCheck))

\* urlsToCheck.slice(i, i + batchSize)
BatchAt(urlsToCheck, i) ==
    SubSeq(urlsToCheck, i + 1, Min(i + BatchSize, Len(urlsToCheck)))

StartBatch(s, i) ==
    LET batch == BatchAt(s.targets, i)
    IN  [s EXCEPT !.i = i,
                  !.probes = [j \in 1..Len(batch) |->
                                 checkUrlStatus(urlToCheck(batch[j], s.domain))]]

\* The loop over the batches from the point where Promise.all of the current
\* batch is awaited, up to the next batch that has a probe in flight or to the
\* sort
\* The time from the start of the probes (started together) to the
\* resolution of the last of them
LastElapsed(probes) ==
    CHOOSE t \in { probes[j].elapsed : j \in 1..Len(probes) } :
        \A j \in 1..Len(probes) : probes[j].elapsed <= t

RECURSIVE AwaitBatch(_)
AwaitBatch(s) ==
    IF ~AllResolved(s.probes) THEN s
    ELSE LET joined ==
                [s EXCEPT !.deadPages = @ \o BatchResults(BatchAt(s.targets, s.i), s.probes, 1),
                          !.probed = @ \o [j \in 1..Len(s.probes) |->
                                ProbeResult(BatchAt(s.targets, s.i)[j], s.probes[j])],
                          !.spent = @ + LastElapsed(s.probes)]
         IN  IF s.i + BatchSize < Len(s.targets)
             THEN AwaitBatch(StartBatch(joined, s.i + BatchSize))
             ELSE [joined EXCEPT !.pc = "return", !.probes = <<>>,
                                 !.deadPages = SortByCount(@)]

filterDeadPages(s, results) ==
    LET started == [s EXCEPT !.pc = "probing", !.total = Len(results),
                             !.targets = slice(results, MaxChecks)]
    IN  IF started.targets = <<>> THEN [started EXCEPT !.pc = "return"]
        ELSE AwaitBatch(StartBatch(started, 0))

-----------------------------------------------------------------------------
(* The probe loop at the end of callDataForSEO in the rate-limited variant *)

\* Mutant of DeadPublic: status 0 is not taken as dead
DeadPublicOnlyHttp(status) == status \in {404, 410}

\* if (status === 404 || status === 410 || status === 0)
DeadPublic(status) == status \in {404, 410, 0}

\* item.status_code = status || 404
ItemPublic(item, status) ==
    [dead_page |-> item.dead_page, target_url |-> item.target_url,
     backlink_count |-> item.backlink_count,
     referring_domains |-> item.referring_domains_count,
     top_referrers |-> item.top_referrers,
     status_code |-> IF status = 0 THEN 404 ELSE status]

\* for (const item of targetUrls.slice(0, 100)) { await checkUrlStatus(...) }
\* from the point where the probe of item i + 1 is awaited
RECURSIVE AwaitProbe(_)
AwaitProbe(s) ==
    IF s.i >= Len(s.targets)
    THEN [s EXCEPT !.pc = "return", !.probes = <<>>,
                   !.deadPages = slice(SortByCount(@), ResultCap)]
    ELSE IF ~AllResolved(s.probes) THEN s
    ELSE LET item == s.targets[s.i + 1]
             status == s.probes[1].status
             pushed == [s EXCEPT
                 !.deadPages = IF DeadPublic(status)
                               THEN Append(@, ItemPublic(item, status)) ELSE @,
                 !.probed = Append(@, ProbeResult(item, s.probes[1])),
                 !.spent = @ + s.probes[1].elapsed,
                 !.i = @ + 1]
         IN  IF pushed.i < Len(pushed.targets)
             THEN AwaitProbe([pushed EXCEPT
                     !.probes = <<checkUrlStatus(pushed.targets[pushed.i + 1].target_url)>>])
             ELSE AwaitProbe(pushed)

ProbeLoop(s, grouped) ==
    LET started == [s EXCEPT !.pc = "probing", !.total = Len(grouped),
                             !.targets = slice(grouped, MaxChecks)]
    IN  IF started.targets = <<>> THEN AwaitProbe(started)
        ELSE AwaitProbe([started EXCEPT
                !.probes = <<checkUrlStatus(started.targets[1].target_url)>>])

-----------------------------------------------------------------------------
(* The provider's answer and the rest of the handler *)

\* The body of the provider's response.  shape tells how far the nesting
\* tasks[0].result[0].items of a JSON body goes: "full" (items holds the list
\* the variant iterates over), "no_tasks" (no field tasks), "empty_tasks"
\* (tasks: []), "no_result" (tasks: [{}]), "empty_result" (result: []) or
\* "no_items" (result: [{}])
Garbage ==
    [kind |-> "garbage", status_code |-> 0, status_message |-> "", shape |-> "",
     items |-> <<>>]
Rejected(msg) ==
    [kind |-> "json", status_code |-> 40200, status_message |-> msg, shape |-> "no_tasks",
     items |-> <<>>]
Ok(links) ==
    [kind |-> "json", status_code |-> ProviderOk, status_message |-> "Ok.",
     shape |-> "full", items |-> links]

MissingShapes == {"no_tasks", "empty_tasks", "no_result", "empty_result", "no_items"}

Partial(shape) ==
    [kind |-> "json", status_code |-> ProviderOk, status_message |-> "Ok.",
     shape |-> shape, items |-> <<>>]

\* An element of result that has none of the fields of an edge
NoFields ==
    [url_to |-> NoUrl, url_from |-> 0, domain_from |-> NoDomain, domain_from_rank |-> 0]

\* The list the aggregation loop runs over: tasks[0].result[0].items under
\* the && guards, else [] (batched-probe variant);
\* response.tasks?.[0]?.result || [], the elements of result themselves
\* (rate-limited variant)
ItemsOf(v, payload) ==
    IF payload.shape = "full" THEN payload.items
    ELSE IF v = "public" /\ payload.shape = "no_items" THEN <<NoFields>>
    ELSE <<>>

\* Mutant of ApiResult: the status_code of the payload is not looked at
ApiResultAnyStatus(v, payload) ==
    IF payload.kind = "garbage"
    THEN [error |-> "Failed to parse API response", results |-> <<>>]
    ELSE LET agg == Aggregates(v, ItemsOf(v, payload))
         IN  IF agg.threw
             THEN [error |-> "Failed to parse API response", results |-> <<>>]
             ELSE [error |-> "", results |-> agg.results]

\* apiResult of callDataForSEO on a response that ended, before any probe:
\* an error message, or "" and the aggregates
ApiResult(v, payload) ==
    IF payload.kind = "garbage"                       \* JSON.parse throws
    THEN [error |-> "Failed to parse API response", results |-> <<>>]
    ELSE IF payload.status_code # ProviderOk
    THEN [error |-> IF payload.status_message # "" THEN payload.status_message
                    ELSE "API error",
          results |-> <<>>]
    ELSE LET agg == Aggregates(v, ItemsOf(v, payload))
         IN  IF agg.threw
             THEN [error |-> "Failed to parse API response", results |-> <<>>]
             ELSE [error |-> "", results |-> agg.results]

\* rateLimitCache.set(rateLimitKey, true); only the rate-limited variant has it
Mark(v, cache, key) == IF v = "public" THEN cache \cup {key} ELSE cache

\* Mutant of Done: urls_checked is the number of aggregates, uncapped
DoneCountsAll(v, s) ==
    [Success(s.domain, s.today, s.deadPages, s.probed) EXCEPT
        !.debug = IF v = "batched"
                  THEN [total_urls_from_api |-> s.total,
                        urls_checked |-> s.total,
                        dead_pages_found |-> Len(s.deadPages)]
                  ELSE NoDebug]

\* The 200 response of a slot s whose scan is complete; the batched-probe
\* variant adds the debug object
Done(v, s) ==
    [Success(s.domain, s.today, s.deadPages, s.probed) EXCEPT
        !.debug = IF v = "batched"
                  THEN [total_urls_from_api |-> s.total,
                        urls_checked |-> Min(s.total, 100),
                        dead_pages_found |-> Len(s.deadPages)]
                  ELSE NoDebug]

\* Mutant of AfterApi: the mark is set before apiResult.error is looked at
AfterApiMarkFirst(v, cache, s) ==
    [cache |-> IF v = "public" THEN cache \cup {<<s.domain, s.today>>} ELSE cache,
     response |-> IF s.error # ""
                  THEN Reply("POST", 500, s.error, s.domain, s.today)
                  ELSE Done(v, s)]

\* The handler after its awaits, for a slot s whose scan is complete: the
\* error response when apiResult carries an error, else the mark and the
\* success response
AfterApi(v, cache, s) ==
    IF s.error # ""
    THEN [cache |-> cache,
          response |-> Reply("POST", 500, s.error, s.domain, s.today)]
    ELSE [cache |-> Mark(v, cache, rateLimitKey(s.domain, s.today)),
          response |-> Done(v, s)]

\* Mutant of Failed: the provider request is sent once more after a failure
FailedRetries(s, error) ==
    IF s.calls < 2 THEN [s EXCEPT !.pc = "provider", !.calls = @ + 1]
    ELSE [s EXCEPT !.pc = "return", !.error = error]

\* callDataForSEO resolved with an error
Failed(s, error) == [s EXCEPT !.pc = "return", !.error = error]

\* The slot r goes on as s: it returns when its scan is complete (pc "return")
\* and waits for the next event otherwise
Continue(r, s) ==
    IF s.pc = "return"
    THEN \E fin \in {AfterApi(deployed, rateLimitCache, s)} :
            /\ reqs' = [reqs EXCEPT ![r] = Idle]
            /\ rateLimitCache' = fin.cache
            /\ response' = [fin.response EXCEPT !.upstream = s.upstream, !.calls = s.calls,
                                                !.edges = s.edges, !.spent = s.spent]
    ELSE /\ reqs' = [reqs EXCEPT ![r] = s]
         /\ response' = NoResponse
         /\ UNCHANGED rateLimitCache

\* req.on('error'): the connection to the provider failed
ProviderError(r) ==
    /\ response = NoResponse
    /\ reqs[r].pc = "provider"
    /\ Continue(r, Failed([reqs[r] EXCEPT !.upstream.kind = "unreachable"],
                           "Failed to connect to API"))
    /\ UNCHANGED <<deployed, aggVars, configured, clock>>

\* res.on('end'): the provider's response is complete
ProviderEnd(r, payloads) ==
    /\ response = NoResponse
    /\ reqs[r].pc = "provider"
    /\ \E payload \in payloads :
        \E apiResult \in {ApiResult(deployed, payload)} :
            LET s == [reqs[r] EXCEPT
                         !.status_code = payload.status_code,
                         !.edges = IF payload.kind = "json" /\ payload.status_code = ProviderOk
                                   THEN ItemsOf(deployed, payload) ELSE <<>>,
                         !.upstream = [kind |-> payload.kind,
                                       status_code |-> payload.status_code,
                                       status_message |-> payload.status_message,
                                       shape |-> payload.shape]]
            IN  Continue(r, IF apiResult.error # "" THEN Failed(s, apiResult.error)
                            ELSE IF deployed = "public"
                            THEN ProbeLoop(s, apiResult.results)
                            ELSE filterDeadPages(s, apiResult.results))
    /\ UNCHANGED <<deployed, aggVars, configured, clock>>

\* A response, an error or a timeout of the request of probe j
ProbeEvent(r, events) ==
    /\ response = NoResponse
    /\ reqs[r].pc = "probing"
    /\ \E j \in 1..Len(reqs[r].probes), ev \in events :
        /\ reqs[r].probes[j].phase # "resolved"
        /\ LET s == WithProbeEvent(deployed, reqs[r], j, ev)
           IN  Continue(r, IF deployed = "public" THEN AwaitProbe(s) ELSE AwaitBatch(s))
    /\ UNCHANGED <<deployed, aggVars, configured, clock>>

\* A response, an error or a timeout of a fallback GET whose probe is resolved:
\* res.destroy() and resolve(status), or resolve(0), to no effect on the
\* promise.  (The requests still in flight when the handler returns are left
\* to the platform.)
LateEvent(r) ==
    /\ response = NoResponse
    /\ reqs[r].pc = "probing"
    /\ reqs[r].late > 0
    /\ reqs' = [reqs EXCEPT ![r].late = @ - 1]
    /\ response' = NoResponse
    /\ UNCHANGED <<deployed, aggVars, configured, clock, rateLimitCache>>

-----------------------------------------------------------------------------
(* SpecRate: concurrent invocations against the rate limiter;               *)
(* SpecScan: one invocation at a time over richer provider data             *)

Methods == {"POST", "OPTIONS", "GET"}

Events(domains) ==
    { [httpMethod |-> m, bodyParses |-> TRUE, domain |-> Undefined] : m \in Methods }
    \cup { [httpMethod |-> "POST", bodyParses |-> FALSE, domain |-> Undefined],
           [httpMethod |-> "POST", bodyParses |-> TRUE, domain |-> Number42],
           [httpMethod |-> "POST", bodyParses |-> TRUE, domain |-> Str("")] }
    \cup { [httpMethod |-> m, bodyParses |-> TRUE, domain |-> Str(d)] :
                m \in Methods, d \in domains }

RateEvents == Events({"example.com", "https://WWW.Example.com/", "other.org"})
ScanEvents == Events({"https://Example.com/path"})

RatePayloads == { Rejected("Payment Required"), Ok(MkItems(<<<<UA1, 1>>>>)) }

RateProbeEvents ==
    { ev \in ProbeEvents : ev.type = "error" \/ ev.statusCode \in {200, 404} }

\* The raw targets "a" and "/a" are two aggregates probed at one URL; the raw
\* target "http//bad" starts with 'http' and is probed as it is
\* ... and the raw target "7" is an array index among the property names
ScanEdgeKinds ==
    { <<UA1, 1>>, <<UA1, 2>>, <<UB, 1>>, <<Raw("a"), 2>>, <<Raw("/a"), 1>>,
      <<Raw("http//bad"), 1>>, <<Raw("7"), 1>> }

\* Longer edge lists: a target seen later that has more backlinks, and
\* three targets of which one cannot be probed
ScanLongLists ==
    { << <<UB, 1>>, <<UA1, 1>>, <<UA1, 2>> >>,
      << <<Raw("http//bad"), 1>>, <<UA1, 1>>, <<UB, 1>> >> }

\* Edges to one path whose target URLs differ in scheme, host and query
\* string, the first with the scheme https, http or ftp
ScanSharedPaths ==
    { << <<UA1, 1>>, <<UA2, 2>> >>,
      << <<UA2, 1>>, <<UA1, 1>> >>,
      << <<UFtp, 1>>, <<UA1, 2>> >> }

ScanPayloads ==
    { Garbage, Rejected(""), Rejected("Payment Required"), Ok(MkItems(<<<<UProto, 1>>>>)) }
    \cup { Partial(shape) : shape \in MissingShapes }
    \cup { Ok(MkItems(ks)) : ks \in ScanLongLists }
    \cup { Ok(MkItems(ks)) : ks \in ScanSharedPaths }
    \cup { Ok(MkItems(ks)) : ks \in SeqsUpTo(ScanEdgeKinds, MaxScanEdges) }

InitScan ==
    /\ deployed \in {"public", "batched"}
    /\ items = <<>>
    /\ aggOut = NotRun
    /\ sub = NoSubscription(FALSE)
    /\ configured \in BOOLEAN
    /\ clock = 1
    /\ rateLimitCache = {}
    /\ reqs = [r \in Slots |-> Idle]
    /\ response = NoResponse

InitRate == InitScan /\ deployed = "public"

NextRate ==
    \/ Tick
    \/ Deliver
    \/ \E r \in Slots :
        \/ Arrive(r, RateEvents)
        \/ ProviderError(r)
        \/ ProviderEnd(r, RatePayloads)
        \/ ProbeEvent(r, RateProbeEvents)

SpecRate == InitRate /\ [][NextRate]_vars

NextScan ==
    \/ Deliver
    \/ Arrive(1, ScanEvents)
    \/ ProviderError(1)
    \/ ProviderEnd(1, ScanPayloads)
    \/ ProbeEvent(1, ProbeEvents)
    \/ LateEvent(1)

SpecScan == InitScan /\ [][NextScan]_vars

-----------------------------------------------------------------------------
(* SpecNorm: one invocation at a time of the rate-limited variant over      *)
(* domain strings put together from schemes, www. prefixes, hosts and paths  *)

DomainInputs ==
    { scheme \o www \o host \o path :
        scheme \in {"", "http://", "https://", "HTTPS://"},
        www \in {"", "www.", "WWW.", "www.www."},
        host \in {"example.com", "Example.COM"},
        path \in {"", "/", "/Path", "//"} }

NormEvents == Events(DomainInputs)

NextNorm ==
    \/ Deliver
    \/ Arrive(1, NormEvents)
    \/ ProviderError(1)
    \/ ProviderEnd(1, RatePayloads)
    \/ ProbeEvent(1, RateProbeEvents)

SpecNorm == InitRate /\ [][NextNorm]_vars

-----------------------------------------------------------------------------
(* SpecCap: one invocation over provider data with about MaxChecks targets; *)
(* every probed host answers 404                                            *)

MaxTargets == 102  \* most distinct targets in the provider's data

ManyTargets(n) ==
    Ok(MkItems([i \in 1..n |-> <<Url("https", "h1", "/p" \o ToString(i), ""), 1>>]))

\* n targets with one edge each, then the edges more
ManyTargetsAnd(n, more) ==
    Ok(MkItems([i \in 1..n |-> <<Url("https", "h1", "/p" \o ToString(i), ""), 1>>] \o more))

\* The last target seen of n
LastTarget(n) == Url("https", "h1", "/p" \o ToString(n), "")

\* Fewer targets than MaxChecks; more, of which the last seen has a second
\* edge; and the same followed by a raw target that is an array index
CapPayloads ==
    { ManyTargets(MaxTargets - 3),
      ManyTargetsAnd(MaxTargets, << <<LastTarget(MaxTargets), 2>> >>),
      ManyTargetsAnd(MaxTargets, << <<LastTarget(MaxTargets), 2>>, <<Raw("7"), 1>> >>) }

CapProbeEvents == { ev \in ProbeEvents : ev.statusCode = 404 }

NextCap ==
    \/ Deliver
    \/ Arrive(1, ScanEvents)
    \/ ProviderEnd(1, CapPayloads)
    \/ ProbeEvent(1, CapProbeEvents)

SpecCap == InitScan /\ [][NextCap]_vars

-----------------------------------------------------------------------------
(* SpecLate: one invocation over targets for a little more than one batch, *)
(* none of whose hosts answers a HEAD request                               *)

LatePayloads == { ManyTargets(n) : n \in (BatchSize + 1)..(BatchSize + MaxScanEdges) }

LateProbeEvents == { ev \in ProbeEvents : ev.type = "timeout" }

NextLate ==
    \/ Deliver
    \/ Arrive(1, ScanEvents)
    \/ ProviderEnd(1, LatePayloads)
    \/ ProbeEvent(1, LateProbeEvents)
    \/ LateEvent(1)

SpecLate == InitScan /\ [][NextLate]_vars

\* The scan under the scheduling the code arranges for itself: every probe
\* request carries a socket timeout, so a probe in flight eventually gets its
\* 'timeout' event, and a returned response is eventually handed back.  The
\* provider request is issued without a timeout and listens only for 'error'
\* on the request and 'data'/'end' on the response, so no event of the provider
\* request is guaranteed to happen.
SpecLive ==
    /\ InitScan
    /\ [][NextScan]_vars
    /\ WF_vars(ProbeEvent(1, LateProbeEvents))
    /\ WF_vars(Deliver)

-----------------------------------------------------------------------------
(* SpecTime: one invocation at a time over one or two targets whose hosts  *)
(* answer at once, half a timeout after the start of a request, or not at  *)
(* all                                                                      *)

TimedProbeEvents == EventsAfter({0, Timeout("public") \div 2})

TimePayloads == { Ok(MkItems(ks)) : ks \in SeqsUpTo({ <<UA1, 1>>, <<UB, 1>> }, MaxScanEdges) }

NextTime ==
    \/ Deliver
    \/ Arrive(1, ScanEvents)
    \/ ProviderEnd(1, TimePayloads)
    \/ ProbeEvent(1, TimedProbeEvents)
    \/ LateEvent(1)

SpecTime == InitScan /\ [][NextTime]_vars

-----------------------------------------------------------------------------
(* SpecAgg: the aggregation as a function of the provider's items *)

InitAgg ==
    /\ deployed \in Variants
    /\ items \in EdgeLists
    /\ aggOut = NotRun
    /\ sub = NoSubscription(FALSE)
    /\ configured = TRUE
    /\ clock = 1
    /\ rateLimitCache = {}
    /\ reqs = [r \in Slots |-> Idle]
    /\ response = NoResponse

Aggregate ==
    /\ ~aggOut.ran
    /\ aggOut' = Aggregates(deployed, items)
    /\ UNCHANGED <<deployed, items, sub, scanVars>>

NextAgg == Aggregate

SpecAgg == InitAgg /\ [][NextAgg]_vars

\* subscribe.js alone: the scan function is at rest
InitSubscribe ==
    /\ deployed = "batched"
    /\ items = <<>>
    /\ aggOut = NotRun
    /\ \E hasKey \in BOOLEAN : sub = NoSubscription(hasKey)
    /\ configured = FALSE
    /\ clock = 1
    /\ rateLimitCache = {}
    /\ reqs = [r \in Slots |-> Idle]
    /\ response = NoResponse

SpecSubscribe == InitSubscribe /\ [][NextSubscribe]_vars

-----------------------------------------------------------------------------
(* Properties of the aggregation (SpecAgg) *)

\* An item that is a raw edge: the provider gave it a target URL
HasTarget(link) == link.url_to # NoUrl

\* The grouping key of an edge, from the claim: the path of its target URL,
\* or the raw target URL string when that cannot be parsed
GroupingKey(link) == link.url_to.path

EdgesOf(key) == { i \in 1..Len(items) : GroupingKey(items[i]) = key }

\* The distinct source domains among the edges of a key
DomainsOf(key) == { items[i].domain_from : i \in EdgesOf(key) } \ {NoDomain}

\* ... in order of first occurrence in the edge list
RECURSIVE FirstSeenFrom(_, _, _)
FirstSeenFrom(key, i, acc) ==
    IF i > Len(items) THEN acc
    ELSE IF /\ i \in EdgesOf(key)
            /\ items[i].domain_from # NoDomain
            /\ \A j \in 1..Len(acc) : acc[j] # items[i].domain_from
         THEN FirstSeenFrom(key, i + 1, Append(acc, items[i].domain_from))
         ELSE FirstSeenFrom(key, i + 1, acc)

FirstSeen(key) == FirstSeenFrom(key, 1, <<>>)

RECURSIVE SumCounts(_)
SumCounts(rs) ==
    IF rs = <<>> THEN 0 ELSE Head(rs).backlink_count + SumCounts(Tail(rs))

AllHaveTarget == \A i \in 1..Len(items) : HasTarget(items[i])

\* Every item carries the fields of a raw edge: a target URL and a source domain
ValidEdges ==
    \A i \in 1..Len(items) : HasTarget(items[i]) /\ items[i].domain_from # NoDomain

Aggregated == aggOut.ran /\ ~aggOut.threw

AggResults == aggOut.results

\* C5: for every non-empty list of raw edges, every aggregate's backlink_count
\* is the number of edges that map to its grouping key, and the counts sum to
\* the number of edges (batched-probe and rate-limited variants).
C5_EveryEdgeCounted ==
    (/\ aggOut.ran
     /\ deployed \in {"batched", "public"}
     /\ items # <<>>
     /\ AllHaveTarget)
    => /\ ~aggOut.threw
       /\ \A j \in 1..Len(AggResults) :
            AggResults[j].backlink_count = Cardinality(EdgesOf(AggResults[j].dead_page))
       /\ SumCounts(AggResults) = Len(items)

C7_TopReferrersBounded ==
    (Aggregated /\ ValidEdges)
    => \A j \in 1..Len(AggResults) :
          /\ Len(AggResults[j].top_referrers) <= 10
          /\ Len(AggResults[j].top_referrers) <= Cardinality(DomainsOf(AggResults[j].dead_page))

\* C8: top_referrers holds exactly the first min(10, d) distinct referring
\* domains of the target in order of first occurrence, none twice (all three
\* variants).
C8_TopReferrersFirstDistinct ==
    (Aggregated /\ ValidEdges)
    => \A j \in 1..Len(AggResults) :
          LET top == AggResults[j].top_referrers
              first == FirstSeen(AggResults[j].dead_page)
          IN  /\ Len(top) = Min(10, Len(first))
              /\ \A k \in 1..Len(top) : top[k].domain = first[k]
              /\ \A k, l \in 1..Len(top) : k # l => top[k].domain # top[l].domain

\* C9: an edge whose target URL cannot be parsed never makes the aggregation
\* fail and is counted in the aggregate keyed by its raw target URL string;
\* the other edges are aggregated normally (batched-probe and rate-limited
\* variants).
C9_UnparseableEdgeKept ==
    (/\ aggOut.ran
     /\ deployed \in {"batched", "public"}
     /\ \E i \in 1..Len(items) : HasTarget(items[i]) /\ items[i].url_to.scheme = "")
    => /\ ~aggOut.threw
       /\ \A i \in 1..Len(items) : HasTarget(items[i]) =>
            \E j \in 1..Len(AggResults) :
                /\ AggResults[j].dead_page = GroupingKey(items[i])
                /\ AggResults[j].backlink_count = Cardinality(EdgesOf(GroupingKey(items[i])))

-----------------------------------------------------------------------------
(* Properties of the handler (SpecRate, SpecScan) *)

\* The (domain, date) a response or a slot is about
KeyOf(x) == <<x.domain, x.today>>

InFlight(r) == reqs[r].pc # "idle"

\* The step starts the provider request of slot r
CallsProvider(r) == reqs[r].pc = "idle" /\ reqs'[r].pc = "provider"

\* C1: of sequential scans of one normalized domain on one date the first is
\* allowed and, once it has returned 200, every later one is rejected with
\* 429; on another date the domain is allowed again.  As steps: a successful
\* scan leaves the entry of its (domain, date); entries stay; a request that
\* finds the entry of its (domain, today) is answered 429 and none else is.
C1_OncePerDomainAndDate ==
    [][/\ rateLimitCache \subseteq rateLimitCache'
       /\ response'.success => KeyOf(response') \in rateLimitCache'
       /\ \A r \in Slots : CallsProvider(r) => KeyOf(reqs'[r]) \notin rateLimitCache
       /\ response'.error = "API not configured" => KeyOf(response') \notin rateLimitCache
       /\ response'.statusCode = 429 =>
            /\ response'.today = clock
            /\ KeyOf(response') \in rateLimitCache
      ]_vars

\* C1 witness: a scan of a domain succeeded on day 1 and on day 2, and a later
\* request for it on day 2 has been rejected.
C1_Witness ==
    /\ response.statusCode = 429
    /\ response.today = 2
    /\ <<response.domain, 1>> \in rateLimitCache
    /\ <<response.domain, 2>> \in rateLimitCache

\* C2: of concurrent scan requests for one normalized domain on one date at
\* most one passes the rate-limit gate and calls the provider.
C2_AtMostOnePassesTheGate ==
    \A r1, r2 \in Slots :
        (r1 # r2 /\ InFlight(r1) /\ InFlight(r2)) => KeyOf(reqs[r1]) # KeyOf(reqs[r2])

\* The slot whose handler returns in this step after an await
Returns(r) == reqs[r].pc # "idle" /\ reqs'[r].pc = "idle"

UnresolvedProbes(r) ==
    { j \in 1..Len(reqs[r].probes) : reqs[r].probes[j].phase # "resolved" }

\* C3: the stages of a scan run in order.  The provider is not called for a
\* (domain, date) that has a rate-limit entry; probes are started only by a
\* slot whose provider fetch ended with status 20000; the response of a scan
\* is returned when every probe it started has resolved.
C3_StagesInOrder ==
    [][\A r \in Slots :
        /\ CallsProvider(r) => KeyOf(reqs'[r]) \notin rateLimitCache
        /\ reqs'[r].pc = "probing" =>
              /\ reqs[r].pc \in {"provider", "probing"}
              /\ reqs'[r].status_code = 20000
        /\ reqs'[r].probes # <<>> => reqs'[r].pc = "probing"
        /\ (Returns(r) /\ reqs[r].pc = "probing") =>
              /\ response'.success
              /\ Cardinality(UnresolvedProbes(r)) <= 1
              /\ Len(response'.probed) = Len(reqs[r].targets)
              /\ \A j \in 1..Len(response'.probed) :
                    response'.probed[j].phase = "resolved"
      ]_vars

\* C3 witness: a scan that probed three targets has returned.
C3_Witness ==
    /\ response.success
    /\ Len(response.probed) = 3
    /\ deployed = "batched"

\* C4: the cache gets an entry only in the step that returns 200 for a scan of
\* that (domain, date); a step that returns 400, 405, 429 or 500 leaves the
\* cache as it is.
C4_EntryOnlyOnSuccess ==
    [][/\ rateLimitCache' # rateLimitCache =>
            /\ response'.statusCode = 200
            /\ response'.success
            /\ rateLimitCache' = rateLimitCache \cup {KeyOf(response')}
       /\ response'.statusCode \in {400, 405, 429, 500} =>
            rateLimitCache' = rateLimitCache
      ]_vars

\* C4 witness: a scan failed at the provider and its (domain, date) has no
\* entry, while another date of the domain has one.
C4_Witness ==
    /\ response.statusCode = 500
    /\ response.error = "Payment Required"
    /\ KeyOf(response) \notin rateLimitCache
    /\ <<response.domain, 1>> \in rateLimitCache

\* The statuses each variant reports as dead
DeadStatuses == IF deployed = "public" THEN {404, 410, 0} ELSE {404, 410}

\* The target (grouping key) a record of the results is about
TargetOf(rec) == IF deployed = "public" THEN rec.dead_page ELSE rec.dead_page_path

ProbesOf(rec) ==
    { j \in 1..Len(response.probed) : response.probed[j].target = TargetOf(rec) }

\* No target whose probe resolved to a status that is not dead is in the results
OnlyDeadReported ==
    \A j \in 1..Len(response.probed) :
        response.probed[j].status \notin DeadStatuses =>
            \A k \in 1..Len(response.results) :
                TargetOf(response.results[k]) # response.probed[j].target

\* C10 as claimed: every record of a successful scan belongs to a probed
\* target whose probe resolved to a dead status, and carries that status.
C10_RecordCarriesProbeStatus ==
    response.success =>
        /\ \A k \in 1..Len(response.results) :
              \E j \in ProbesOf(response.results[k]) :
                  /\ response.probed[j].status \in DeadStatuses
                  /\ response.results[k].status_code = response.probed[j].status
        /\ OnlyDeadReported

\* C10 amended: ... and carries that status, except that the rate-limited
\* variant reports a probe that resolved to 0 with status_code 404.
C10_RecordCarriesDeadStatus ==
    response.success =>
        /\ \A k \in 1..Len(response.results) :
              \E j \in ProbesOf(response.results[k]) :
                  /\ response.probed[j].status \in DeadStatuses
                  /\ response.results[k].status_code =
                        IF response.probed[j].status = 0 /\ deployed = "public"
                        THEN 404 ELSE response.probed[j].status
        /\ OnlyDeadReported

\* C10 witness: of two probed targets one resolved to 0 and one to 200, and
\* the results hold the one record of the first, as a 404.
C10_Witness ==
    /\ response.success
    /\ Len(response.probed) = 2
    /\ response.probed[1].status = 0
    /\ response.probed[2].status = 200
    /\ Len(response.results) = 1
    /\ response.results[1].status_code = 404

\* The probes of a returned scan that a transport error or a timeout resolved
Unreachable == { j \in 1..Len(response.probed) : response.probed[j].by \in {"error", "timeout"} }

RecordsOf(target) ==
    { k \in 1..Len(response.results) : TargetOf(response.results[k]) = target }

\* C11 as claimed: a probed target whose host is unreachable or times out
\* resolves to status 0 and is in the results of the scan.
C11_UnreachableIsReported ==
    response.success =>
        \A j \in Unreachable :
            /\ response.probed[j].status = 0
            /\ RecordsOf(response.probed[j].target) # {}

\* C11 amended: ... resolves to status 0; the rate-limited variant has it in
\* the results (as a 404), the batched-probe variant leaves it out.
C11_UnreachableByVariant ==
    response.success =>
        \A j \in Unreachable :
            /\ response.probed[j].status = 0
            /\ deployed = "public" =>
                  \E k \in RecordsOf(response.probed[j].target) :
                      response.results[k].status_code = 404
            /\ deployed = "batched" => RecordsOf(response.probed[j].target) = {}

\* C11 witness: a scan of the rate-limited variant returned a target whose
\* probe timed out, next to one whose probe was answered 200.
C11_Witness ==
    /\ response.success
    /\ deployed = "public"
    /\ Len(response.probed) = 2
    /\ response.probed[1].by = "response" /\ response.probed[1].status = 200
    /\ response.probed[2].by = "timeout"
    /\ Len(response.results) = 1
    /\ TargetOf(response.results[1]) = response.probed[2].target

\* C12: the results of every successful scan are sorted non-increasing by
\* backlink_count, in whatever order the probes completed.
C12_ResultsSortedByCount ==
    response.success =>
        \A k, l \in 1..Len(response.results) :
            k < l => response.results[k].backlink_count >= response.results[l].backlink_count

\* C12 witness: two dead targets were probed in the order of increasing count
\* and are returned in the order of decreasing count.
C12_Witness ==
    /\ response.success
    /\ Len(response.results) = 2
    /\ Len(response.probed) = 2
    /\ response.results[1].backlink_count = 2
    /\ response.results[2].backlink_count = 1
    /\ response.probed[1].target = TargetOf(response.results[2])
    /\ response.probed[2].target = TargetOf(response.results[1])

\* C13: a scan probes at most max_checks = 100 targets and returns at most
\* min(max_checks, result_cap) records, however many aggregates the provider
\* data yields.
C13_ChecksAndRecordsCapped ==
    /\ \A r \in Slots :
          /\ Len(reqs[r].targets) <= 100
          /\ Len(reqs[r].probed) + Len(reqs[r].probes) <= 100
    /\ response.success =>
          /\ Len(response.probed) <= 100
          /\ Len(response.results) <= Min(100, 1000)

\* C13 witness: the provider data had more than 100 targets, 100 were probed
\* and found dead, and 100 records are returned.
C13_Witness ==
    /\ response.success
    /\ response.debug.total_urls_from_api > 100
    /\ Len(response.probed) = 100
    /\ Len(response.results) = 100

\* C14: a provider failure ends the scan.  A payload with a status_code other
\* than 20000, a failed connection and a payload that does not parse are each
\* answered 500 with an error string (the provider's status message, or
\* 'API error' when it has none; the connect-failure message; the
\* parse-failure message), and the scan has issued no probe.
C14_ProviderFailureEndsScan ==
    LET up == response.upstream
        failed == \/ up.kind \in {"unreachable", "garbage"}
                  \/ up.kind = "json" /\ up.status_code # 20000
    IN  /\ failed =>
              /\ response.statusCode = 500
              /\ ~response.success
              /\ response.probed = <<>> /\ response.results = <<>>
              /\ response.error =
                    CASE up.kind = "unreachable" -> "Failed to connect to API"
                      [] up.kind = "garbage" -> "Failed to parse API response"
                      [] up.kind = "json" ->
                            IF up.status_message # "" THEN up.status_message
                            ELSE "API error"
        /\ \A r \in Slots :
              (reqs[r].probes # <<>> \/ reqs[r].probed # <<>>) =>
                  reqs[r].upstream.kind = "json" /\ reqs[r].upstream.status_code = 20000

\* C14 witness: the provider rejected the request with status_code 40200 and
\* a message, and the handler has answered 500 with that message.
C14_Witness ==
    /\ response.upstream.kind = "json"
    /\ response.upstream.status_code = 40200
    /\ response.statusCode = 500
    /\ response.error = "Payment Required"
    /\ response.probed = <<>>

\* The response rejects the request before the provider is involved
RejectedEarly(resp) ==
    \/ resp.statusCode \in {405, 400, 429}
    \/ resp.statusCode = 500 /\ resp.error = "API not configured"

\* C15: an invocation sends at most one request to the provider, and none
\* when it is answered 405, 400, 429 or the 500 for missing credentials; the
\* step that answers 429 leaves the rate-limit cache as it is.
C15_OneProviderCall ==
    [][/\ \A r \in Slots : reqs'[r].calls <= 1
       /\ response'.calls <= 1
       /\ RejectedEarly(response') =>
             /\ response'.calls = 0
             /\ \A r \in Slots : reqs'[r].calls = reqs[r].calls
       /\ response'.statusCode = 429 => rateLimitCache' = rateLimitCache
      ]_vars

\* C15 witness: a request is answered 429 while another invocation waits for
\* its one provider request.
C15_Witness ==
    /\ response.statusCode = 429
    /\ response.calls = 0
    /\ \E r \in Slots : reqs[r].pc = "provider" /\ reqs[r].calls = 1

\* C16: an OPTIONS request is answered 200 with the permissive CORS headers
\* and any method other than POST and OPTIONS with 405; the step that answers
\* either leaves the rate-limit cache and every invocation in flight as they
\* are: no mark, no provider call, no probe.
C16_PreflightAndOtherMethods ==
    [][LET ev == response'.event
       IN  /\ ev.httpMethod = "OPTIONS" =>
                 /\ response'.statusCode = 200
                 /\ response'.error = ""
                 /\ response'.headers.allowOrigin = "*"
                 /\ response'.headers.allowMethods = "POST, OPTIONS"
                 /\ response'.headers.allowHeaders = "Content-Type"
           /\ ev.httpMethod \notin {"", "POST", "OPTIONS"} => response'.statusCode = 405
           /\ ev.httpMethod \notin {"", "POST"} =>
                 /\ rateLimitCache' = rateLimitCache
                 /\ reqs' = reqs
                 /\ response'.calls = 0
                 /\ response'.probed = <<>>
      ]_vars

\* C16 witness: an OPTIONS request that names a domain whose scan of today is
\* in the cache has been answered 200.
C16_Witness ==
    /\ response.event.httpMethod = "OPTIONS"
    /\ response.event.domain.type = "string"
    /\ \E key \in rateLimitCache :
          key = <<normalizedDomain(response.event.domain.text), clock>>
    /\ response.statusCode = 200

\* The event is a POST whose body parses and names a non-empty string domain
ValidPost(ev) ==
    /\ ev.httpMethod = "POST" /\ ev.bodyParses
    /\ ev.domain.type = "string" /\ ev.domain.text # ""

\* The provider request of the response's invocation failed
UpstreamFailed(resp) ==
    \/ resp.upstream.kind \in {"unreachable", "garbage"}
    \/ resp.upstream.kind = "json" /\ resp.upstream.status_code # 20000

\* C17: every failure response carries a top-level error string and the
\* status of its category: 405 for a wrong method, 400 for a missing domain,
\* 429 for a rate-limited domain, 500 for missing credentials, for a provider
\* failure and for a fault caught by the handler; only a response with status
\* 200 carries success: true and results.
C17_FailuresCarryError ==
    response # NoResponse =>
        LET ev == response.event
            limited == ValidPost(ev) /\ deployed = "public"
                       /\ <<normalizedDomain(ev.domain.text), clock>> \in rateLimitCache
        IN  /\ response.statusCode \in {200, 400, 405, 429, 500}
            /\ response.statusCode # 200 =>
                  /\ response.error # ""
                  /\ ~response.success /\ response.results = <<>>
            /\ response.success => response.statusCode = 200 /\ response.error = ""
            /\ ev.httpMethod \notin {"", "POST", "OPTIONS"} => response.statusCode = 405
            /\ (ev.httpMethod = "POST" /\ ev.bodyParses /\ Falsy(ev.domain)) =>
                  response.statusCode = 400
            /\ limited => response.statusCode = 429
            /\ (ValidPost(ev) /\ ~limited) =>
                  response.statusCode = 500 /\ response.error = "API not configured"
            /\ UpstreamFailed(response) => response.statusCode = 500
            /\ (ev.httpMethod = "POST" /\
                    (~ev.bodyParses \/ (~Falsy(ev.domain) /\ ev.domain.type # "string"))) =>
                  response.statusCode = 500

\* C17 witness: a fault caught by the handler (a body that is not JSON) has
\* been answered 500 with an error string.
C17_Witness ==
    /\ response.event.httpMethod = "POST"
    /\ ~response.event.bodyParses
    /\ response.statusCode = 500
    /\ response.error # ""

\* C18: a POST whose input is missing or malformed (a body that is not JSON,
\* a domain that is absent, empty or not a string) is answered 400 and calls
\* no provider.
C18_MalformedInputIs400 ==
    (response.event.httpMethod = "POST" /\ ~ValidPost(response.event)) =>
        /\ response.statusCode = 400
        /\ response.calls = 0

\* The string has no uppercase letter and no '/', and does not start with
\* http://, https:// or www.
NormalForm(str) ==
    /\ \A k \in 1..Len(str) :
          SubSeq(str, k, k) \notin UpperChars /\ SubSeq(str, k, k) # "/"
    /\ ~startsWith(str, "http://") /\ ~startsWith(str, "https://")
    /\ ~startsWith(str, "www.")

\* C19: for every input domain string the normalized domain that goes to the
\* provider call, into the rate-limit key and into the response is in normal
\* form: no uppercase letter, no leading http://, https:// or www., no '/'.
C19_DomainNormalForm ==
    /\ \A r \in Slots : reqs[r].pc # "idle" => NormalForm(reqs[r].domain)
    /\ \A key \in rateLimitCache : NormalForm(key[1])
    /\ NormalForm(response.domain)

\* A probed target is in the results exactly when its own probe resolved to a
\* dead status
OwnStatusDecides ==
    \A j \in 1..Len(response.probed) :
        RecordsOf(response.probed[j].target) # {}
            <=> response.probed[j].status \in DeadStatuses

\* C20: no probe failure aborts the scan.  A scan whose provider call gave
\* aggregates returns 200 whatever its probes resolved to, and a target is in
\* the results exactly when its own probe resolved to a dead status.
C20_ProbeFailuresContained ==
    /\ response.probed # <<>> =>
          /\ response.statusCode = 200 /\ response.success
          /\ OwnStatusDecides
    /\ (/\ response.upstream.kind = "json"
        /\ response.upstream.status_code = 20000
        /\ response.error # "Failed to parse API response")
       => response.statusCode = 200 /\ response.success

\* C20 witness: a scan of the batched-probe variant whose three probes ended
\* with an unparseable URL, a transport error and a 404 has returned 200 with
\* the one record of the 404.
C20_Witness ==
    /\ response.success
    /\ deployed = "batched"
    /\ Len(response.probed) = 3
    /\ \E j \in 1..3 : response.probed[j].by = "invalid"
    /\ \E j \in 1..3 : response.probed[j].by = "error"
    /\ \E j \in 1..3 :
          /\ response.probed[j].by = "response" /\ response.probed[j].status = 404
          /\ Len(response.results) = 1
          /\ TargetOf(response.results[1]) = response.probed[j].target

-----------------------------------------------------------------------------
(* Determinism of aggregation and ranking (SpecScan) *)

\* The status each probed target got in the scan that returned the response
StatusByTarget ==
    [t \in { response.probed[j].target : j \in 1..Len(response.probed) } |->
        response.probed[CHOOSE j \in 1..Len(response.probed) :
                            response.probed[j].target = t].status]

\* The event by which a request yields the status at once
EventFor(status) ==
    IF status = 0 THEN [type |-> "error", statusCode |-> 0, after |-> 0]
    ELSE [type |-> "response", statusCode |-> status, after |-> 0]

\* A second run of the probing from the slot s, in which the probes are
\* answered one after the other in the order of their start, each with the
\* status statusOf gives its target
RECURSIVE RerunFrom(_, _, _)
RerunFrom(v, s, statusOf) ==
    IF s.pc = "return" THEN s
    ELSE LET j == CHOOSE j \in 1..Len(s.probes) :
                    /\ s.probes[j].phase # "resolved"
                    /\ \A k \in 1..(j - 1) : s.probes[k].phase = "resolved"
             item == IF v = "public" THEN s.targets[s.i + 1] ELSE BatchAt(s.targets, s.i)[j]
             next == WithProbeEvent(v, s, j, EventFor(statusOf[item.dead_page]))
         IN  RerunFrom(v, IF v = "public" THEN AwaitProbe(next) ELSE AwaitBatch(next),
                       statusOf)

\* The results of a second run on the edge list edges
Rerun(v, domain, edges, statusOf) ==
    LET aggregates == Aggregates(v, edges).results
        s == [Idle EXCEPT !.domain = domain]
    IN  RerunFrom(v, IF v = "public" THEN ProbeLoop(s, aggregates)
                     ELSE filterDeadPages(s, aggregates), statusOf).deadPages

\* C21: the results list of a scan is the one a second run gives on the same
\* edge list with the same status for every probed target, whatever the order
\* and the way (HEAD or fallback GET) in which the probes of the scan were
\* answered: same records, same field values, same order.
C21_SameInputsSameResults ==
    response.success =>
        response.results =
            Rerun(deployed, response.domain, response.edges, StatusByTarget)

\* A scan with two dead targets of equal backlink count, the first answered
\* by the fallback GET and the second by the HEAD request
C21_Witness ==
    /\ response.success
    /\ deployed = "batched"
    /\ Len(response.probed) = 2
    /\ Len(response.results) = 2
    /\ response.results[1].backlink_count = response.results[2].backlink_count
    /\ response.probed[1].get = "response"
    /\ response.probed[2].get = ""
    /\ response.probed[2].head = "response"

-----------------------------------------------------------------------------
(* Duration of the probing (SpecTime) *)

\* ceil(n / BatchSize)
Batches(n) == (n + BatchSize - 1) \div BatchSize

\* C22: every probe resolves no later than one per-request timeout after it
\* is started, a failed HEAD followed by the fallback GET included, and the
\* probing of n targets takes at most ceil(n / 10) timeouts (batched-probe
\* variant).
C22_ProbingWithinTimeouts ==
    (response.success /\ deployed = "batched") =>
        /\ \A j \in 1..Len(response.probed) :
              response.probed[j].elapsed <= Timeout(deployed)
        /\ response.spent <= Batches(Len(response.probed)) * Timeout(deployed)

-----------------------------------------------------------------------------
(* The fallback request and the resolution of a probe (SpecScan) *)

HeadFailed(p) == p.head \in {"error", "timeout"}

\* The fallback GET of the probe was sent and came to its end before the
\* probe was resolved
FallbackDecided(p) == p.get \in {"response", "error", "timeout"}

\* C23: when the HEAD request of a probe fails with a transport error or
\* times out, a fallback GET is issued and the status of the probe is the
\* status code of the response to that GET; the failure of the HEAD request
\* alone never decides the status.
C23_FallbackDecidesAfterHeadFailure ==
    response.success =>
        \A j \in 1..Len(response.probed) :
            LET p == response.probed[j]
            IN  HeadFailed(p) =>
                    /\ FallbackDecided(p)
                    /\ (p.get = "response" => p.by = "response")

\* C24: a probe resolves exactly one status: 0 if its URL cannot be parsed or
\* if both the HEAD request and the fallback GET ended in an error or a
\* timeout, and otherwise the status code of the response that resolved it
\* (batched-probe variant).
C24_ProbeResolvesOneStatus ==
    (response.success /\ deployed = "batched") =>
        \A j \in 1..Len(response.probed) :
            LET p == response.probed[j]
            IN  /\ p.phase = "resolved"
                /\ p.status = 0 <=>
                       \/ p.by = "invalid"
                       \/ HeadFailed(p) /\ p.get \in {"error", "timeout"}
                /\ p.status # 0 => p.by = "response" /\ p.status \in HostStatuses

-----------------------------------------------------------------------------
(* Batches of probes (SpecCap) *)

\* C25: probes are issued in batches of 10: the probes of a batch are started
\* together, and no probe of a batch is started before every probe of the
\* batches before it has resolved (batched-probe variant).
C25_BatchesOfTenInSequence ==
    (deployed = "batched" /\ reqs[1].pc = "probing") =>
        LET s == reqs[1]
        IN  /\ s.i % BatchSize = 0
            /\ Len(s.probes) = Min(BatchSize, Len(s.targets) - s.i)
            /\ Len(s.probes) <= BatchSize
            /\ Len(s.probed) = s.i
            /\ \A j \in 1..Len(s.probed) : s.probed[j].phase = "resolved"

\* The second batch is in flight, part of it resolved
C25_Witness ==
    /\ deployed = "batched"
    /\ reqs[1].pc = "probing"
    /\ reqs[1].i = BatchSize
    /\ Len(reqs[1].probes) = BatchSize
    /\ \E j \in 1..BatchSize : reqs[1].probes[j].phase = "resolved"
    /\ \E j \in 1..BatchSize : reqs[1].probes[j].phase = "head"

-----------------------------------------------------------------------------
(* Requests in flight (SpecLate) *)

\* The outbound probe requests in flight in the scan of slot r: one for each
\* pending probe (its HEAD request or its fallback GET) and the fallback GET
\* requests whose probe is resolved
RequestsInFlight(r) ==
    Cardinality({ j \in 1..Len(reqs[r].probes) : reqs[r].probes[j].phase # "resolved" })
    + reqs[r].late

\* C26: at every moment of a scan at most 10 outbound probe requests (HEAD
\* and fallback GET together) are in flight, and no request started for a
\* batch is in flight when the next batch starts.
C26_AtMostTenRequestsInFlight ==
    reqs[1].pc = "probing" => RequestsInFlight(1) <= BatchSize

-----------------------------------------------------------------------------
(* Which aggregates are probed (SpecCap) *)

\* The grouping keys of an edge list
KeysIn(edges) ==
    { GroupingKey(edges[i]) : i \in { i \in 1..Len(edges) : HasTarget(edges[i]) } }

\* The number of edges of each key, and the index of its first edge
CountIn(edges) ==
    [k \in KeysIn(edges) |->
        Cardinality({ i \in 1..Len(edges) : GroupingKey(edges[i]) = k })]

FirstIn(edges) ==
    [k \in KeysIn(edges) |->
        CHOOSE i \in 1..Len(edges) :
            /\ GroupingKey(edges[i]) = k
            /\ \A h \in 1..(i - 1) : GroupingKey(edges[h]) # k]

\* The key a is enumerated before the key b: array indices first, in
\* ascending order, then the other keys in first-seen order (first)
EnumeratedBefore(first, a, b) ==
    \/ IsArrayIndex(a) /\ ~IsArrayIndex(b)
    \/ IsArrayIndex(a) /\ IsArrayIndex(b) /\ IndexValue(a) < IndexValue(b)
    \/ ~IsArrayIndex(a) /\ ~IsArrayIndex(b) /\ first[a] < first[b]

\* The aggregate of a is handed on before that of b: in enumeration order,
\* which the batched-probe variant re-sorts by descending backlink_count
HandedOnBefore(v, count, first, a, b) ==
    IF v = "batched"
    THEN \/ count[a] > count[b]
         \/ count[a] = count[b] /\ EnumeratedBefore(first, a, b)
    ELSE EnumeratedBefore(first, a, b)

\* The keys seq are the first min(100, n) keys of the edge list in first-seen
\* order
FirstSeenFirst(edges, seq) ==
    \E keys \in {KeysIn(edges)}, first \in {FirstIn(edges)} :
        { seq[j] : j \in 1..Len(seq) } =
            { k \in keys : Cardinality({ a \in keys : first[a] < first[k] }) < MaxChecks }

\* The keys seq are the first min(100, n) keys of the edge list in the order
\* in which the variant v hands the aggregates on, in that order
HandedOnFirst(v, edges, seq) ==
    \E keys \in {KeysIn(edges)}, count \in {CountIn(edges)}, first \in {FirstIn(edges)} :
        /\ Len(seq) = Min(MaxChecks, Cardinality(keys))
        /\ \A j \in 1..Len(seq) :
              /\ seq[j] \in keys
              /\ Cardinality({ a \in keys :
                                 HandedOnBefore(v, count, first, a, seq[j]) }) = j - 1

\* The probing of the scan in slot 1 has just started
ProbingStarts ==
    /\ reqs[1].pc = "probing"
    /\ reqs[1].probed = <<>>
    /\ \A j \in 1..Len(reqs[1].probes) : reqs[1].probes[j].head \in {"", "sent"}

TargetKeys(targets) == [j \in 1..Len(targets) |-> targets[j].dead_page]

ProbedKeys == [j \in 1..Len(response.probed) |-> response.probed[j].target]

ReportedAreProbed ==
    \A j \in 1..Len(response.results) :
        \E h \in 1..Len(response.probed) :
            response.probed[h].target = TargetOf(response.results[j])

\* C27 as stated: the targets probed are exactly the first min(100, n)
\* aggregates in first-seen order of their grouping keys in the edge list,
\* and no other aggregate is probed or reported.
C27_FirstSeenTargetsProbed ==
    /\ ProbingStarts => FirstSeenFirst(reqs[1].edges, TargetKeys(reqs[1].targets))
    /\ response.success => FirstSeenFirst(response.edges, ProbedKeys) /\ ReportedAreProbed

\* C27 amended: the targets probed are exactly the first min(100, n)
\* aggregates in the order in which the aggregation hands them on, probed in
\* that order, and no other aggregate is probed or reported.
C27_HandedOnTargetsProbed ==
    /\ ProbingStarts =>
          HandedOnFirst(deployed, reqs[1].edges, TargetKeys(reqs[1].targets))
    /\ response.success =>
          HandedOnFirst(deployed, response.edges, ProbedKeys) /\ ReportedAreProbed

\* More aggregates than MaxChecks: the target with two edges, first seen
\* behind MaxChecks others, and the array index are probed first, and targets
\* seen before them are left out
C27_Witness ==
    /\ response.success
    /\ deployed = "batched"
    /\ Cardinality(KeysIn(response.edges)) > MaxChecks
    /\ Len(response.probed) = MaxChecks
    /\ CountIn(response.edges)[response.probed[1].target] = 2
    /\ FirstIn(response.edges)[response.probed[1].target] > MaxChecks
    /\ response.probed[2].target = "7"
    /\ \E k \in KeysIn(response.edges) :
          /\ FirstIn(response.edges)[k] <= MaxChecks
          /\ \A j \in 1..Len(response.probed) : response.probed[j].target # k

-----------------------------------------------------------------------------
(* Order of records with equal counts (SpecScan) *)

\* C28: the ranking sort is stable with respect to the aggregator order: any
\* two records of the results with equal backlink_count appear in the
\* first-seen order of their target paths in the provider's edge list.
C28_TiesInFirstSeenOrder ==
    response.success =>
        \E first \in {FirstIn(response.edges)} :
            \A i, j \in 1..Len(response.results) :
                (/\ i < j
                 /\ response.results[i].backlink_count = response.results[j].backlink_count)
                => first[TargetOf(response.results[i])] < first[TargetOf(response.results[j])]

-----------------------------------------------------------------------------
(* Provider payloads with missing nested fields (SpecScan) *)

\* C29: a provider payload with status_code 20000 in which a nested field of
\* the expected shape is missing (no tasks, empty tasks, no result, empty
\* result, no items) is treated as an empty edge list: the scan returns 200
\* with empty results and no error.
C29_MissingFieldsGiveEmptyResults ==
    (/\ response.upstream.kind = "json"
     /\ response.upstream.status_code = ProviderOk
     /\ response.upstream.shape \in MissingShapes)
    => /\ response.statusCode = 200
       /\ response.success
       /\ response.error = ""
       /\ response.results = <<>>

-----------------------------------------------------------------------------
(* Termination of a scan (SpecLive) *)

\* C30: every scan that has started (its provider request is out, or its
\* probes are running) eventually returns a response, whatever the provider
\* and the probed hosts do, a provider that never answers included.
C30_EveryScanReturns ==
    (reqs[1].pc # "idle") ~> (response # NoResponse)

-----------------------------------------------------------------------------
(* Pairing of records, aggregates and probes (SpecScan) *)

\* The URL a record reports, and the URL probed for an aggregate
ReportedUrl(rec) == IF deployed = "public" THEN rec.target_url ELSE rec.dead_page

ProbedUrl(g, domain) == IF deployed = "public" THEN g.target_url ELSE urlToCheck(g, domain)

\* The status_code a record carries for a probe status
ReportedStatus(status) == IF deployed = "public" /\ status = 0 THEN 404 ELSE status

\* The record rec is the record of the aggregate g: it carries g's counts and
\* referrers, the URL probed for g and the status of a probe of g at that URL
RecordOf(rec, g) ==
    /\ TargetOf(rec) = g.dead_page
    /\ rec.backlink_count = g.backlink_count
    /\ rec.referring_domains = g.referring_domains_count
    /\ rec.top_referrers = g.top_referrers
    /\ ReportedUrl(rec) = ProbedUrl(g, response.domain)
    /\ \E j \in 1..Len(response.probed) :
          /\ response.probed[j].target = g.dead_page
          /\ response.probed[j].url = ReportedUrl(rec)
          /\ rec.status_code = ReportedStatus(response.probed[j].status)

\* C31: every record of a successful scan carries the backlink_count, the
\* referring-domain count and the top_referrers of the aggregate whose URL
\* was probed for it, with the status of that aggregate's probe, in whatever
\* way the probes of a batch were answered; no two records are about the same
\* target.
C31_RecordsCarryOwnAggregate ==
    response.success =>
        \E aggs \in {Aggregates(deployed, response.edges).results} :
            /\ \A k \in 1..Len(response.results) :
                  \E i \in 1..Len(aggs) : RecordOf(response.results[k], aggs[i])
            /\ \A k, m \in 1..Len(response.results) :
                  TargetOf(response.results[k]) = TargetOf(response.results[m]) => k = m

\* C31 witness: two dead targets with different counts and different dead
\* statuses, the first answered by the fallback GET and the second by HEAD
C31_Witness ==
    /\ response.success
    /\ deployed = "batched"
    /\ Len(response.results) = 2
    /\ response.results[1].backlink_count = 2
    /\ response.results[2].backlink_count = 1
    /\ response.results[1].status_code = 410
    /\ response.results[2].status_code = 404
    /\ response.probed[1].get = "response"
    /\ response.probed[2].head = "response"

-----------------------------------------------------------------------------
(* Scans of different domains and the rate limiter (SpecRate) *)

\* The entries of the domain d in a cache
EntriesOf(d, cache) == { k \in cache : k[1] = d }

\* The requests that name a domain
DomainEvents == { ev \in RateEvents : ev.domain.type = "string" /\ ev.domain.text # "" }

\* C32: scans of different normalized domains do not interfere through the
\* rate limiter.  No step removes an entry; the entries of a domain change
\* only in the step that returns the 200 of a scan of that domain; and what
\* the handler does with a request for a domain (reject it with 429, or go
\* on) is what it does when the cache holds the entries of that domain only,
\* as in the run without the requests for the other domains.
C32_DomainsDoNotInterfere ==
    [][/\ rateLimitCache \subseteq rateLimitCache'
       /\ \A ev \in DomainEvents :
            \E d \in {normalizedDomain(ev.domain.text)} :
                /\ EntriesOf(d, rateLimitCache') # EntriesOf(d, rateLimitCache) =>
                        /\ response'.success
                        /\ response'.domain = d
                /\ HandlerStart(deployed, ev, rateLimitCache, clock, configured)
                       = HandlerStart(deployed, ev, EntriesOf(d, rateLimitCache),
                                      clock, configured)
      ]_vars

\* C32 witness: a scan of other.org has returned 200 and left its entry on
\* the day for which example.com has its entry already
C32_Witness ==
    /\ response.statusCode = 200
    /\ response.domain = "other.org"
    /\ response.today = 1
    /\ <<"example.com", 1>> \in rateLimitCache
    /\ <<"other.org", 1>> \in rateLimitCache

-----------------------------------------------------------------------------
(* The debug counters of the batched-probe variant (SpecCap) *)

\* C33: in every 200 response of the batched-probe handler
\* dead_pages_found = length of results <= urls_checked
\* = min(total_urls_from_api, 100) <= total_urls_from_api, and urls_checked is
\* the number of targets for which checkUrlStatus was called.
C33_DebugCountersConsistent ==
    (response.success /\ deployed = "batched") =>
        /\ response.debug.dead_pages_found = Len(response.results)
        /\ response.debug.dead_pages_found <= response.debug.urls_checked
        /\ response.debug.urls_checked = Min(response.debug.total_urls_from_api, 100)
        /\ response.debug.urls_checked <= response.debug.total_urls_from_api
        /\ response.debug.urls_checked = Len(response.probed)

\* C33 witness: the provider data had MaxTargets targets, more than the cap
C33_Witness ==
    /\ response.success
    /\ deployed = "batched"
    /\ response.debug.total_urls_from_api = MaxTargets
    /\ response.debug.total_urls_from_api > MaxChecks
    /\ response.debug.urls_checked = MaxChecks
    /\ response.debug.dead_pages_found = MaxChecks

-----------------------------------------------------------------------------
(* Grouping by path and the URL probed for a group (SpecScan) *)

\* Every edge of the key in the edge list has a target URL that parses
AllParse(edges, key) ==
    \A i \in 1..Len(edges) : GroupingKey(edges[i]) = key => Parses(edges[i].url_to)

\* C34: edges are grouped by target path only.  Edges whose target URLs share
\* a pathname (and differ in host, scheme or query string) make one aggregate,
\* probed once; the URL probed for it, which is the URL reported, is the
\* target URL of the first edge seen for the path, and no other URL of the
\* group is probed.
C34_FirstUrlOfPathProbed ==
    response.success =>
        \E first \in {FirstIn(response.edges)} :
            /\ \A j \in 1..Len(response.probed) :
                  AllParse(response.edges, response.probed[j].target) =>
                      /\ response.probed[j].url =
                            response.edges[first[response.probed[j].target]].url_to
                      /\ \A h \in 1..Len(response.probed) :
                            response.probed[h].target = response.probed[j].target => h = j
            /\ \A k \in 1..Len(response.results) :
                  AllParse(response.edges, TargetOf(response.results[k])) =>
                      ReportedUrl(response.results[k]) =
                          response.edges[first[TargetOf(response.results[k])]].url_to

-----------------------------------------------------------------------------
(* Preflight and other methods of subscribe.js (SpecSubscribe) *)

\* C35: the subscribe handler answers an OPTIONS request with 204 and the
\* CORS headers, and every method other than POST and OPTIONS with 405;
\* neither answer comes after a request to MailerLite.
C35_SubscribePreflightAndOtherMethods ==
    /\ sub.response.event.httpMethod = "OPTIONS" =>
          /\ sub.response.statusCode = 204
          /\ sub.response.headers = corsHeaders
          /\ ~sub.response.called
    /\ sub.response.event.httpMethod \notin {"", "POST", "OPTIONS"} =>
          /\ sub.response.statusCode = 405
          /\ ~sub.response.called

====
